---- MODULE Spec2Model ----
(***************************************************************************)
(* Model of src-tauri/resources/generate_complex_template.py: a module-    *)
(* level script that builds one python-docx Document statement by          *)
(* statement, saves it once and prints a three line summary.               *)
(*                                                                         *)
(* Text is modelled as a sequence of Unicode code points, so that the      *)
(* per-character loop of para2 and the concatenation of Run texts are      *)
(* computed rather than assumed.  An attribute that python-docx reports as *)
(* None (never assigned on the Run) is the empty sequence; an assigned     *)
(* attribute is a one-element sequence holding its value.                  *)
(***************************************************************************)
EXTENDS Integers, Sequences, FiniteSets, TLC

VARIABLES
  doc,          \* the Document: sequence of blocks (paragraphs and headings)
  env,          \* the module namespace: name -> reference into doc
  text,         \* the module-level name `text` (lines 60 and 150/172)
  output_path,  \* the module-level name `output_path` (line 177)
  pc,           \* section of the script being executed, or "done"/"failed"
  ip,           \* statement within the section (0 = at the head of a for loop)
  iter,         \* number of items the current for loop has consumed
  file,         \* content of the output artifact on disk
  saveCalls,    \* number of doc.save calls made by this execution
  stdout,       \* lines printed by this execution
  source,       \* the string literal of line 60
  invocation,   \* ordinal of the current execution of the script
  prevDoc       \* the Document built by the previous execution

vars == <<doc, env, text, output_path, pc, ip, iter, file, saveCalls, stdout,
          source, invocation, prevDoc>>

\* ---------------------------------------------------------------- bounds
MaxLen == 9
MaxInvocations == 2

\* ------------------------------------------------------- library values
None == <<>>

Some(v) == <<v>>

IsSet(a) == a # None

RGBColor(r, g, b) == <<r, g, b>>

EmuPerPt == 12700

Pt(n) == n * EmuPerPt

HeadingStyle(level) == IF level = 0 THEN "Title" ELSE "Heading 1"

NewRun(t) ==
  [text |-> t, color |-> None, bold |-> None, italic |-> None,
   underline |-> None, size |-> None]

NewParagraph(style, t) ==
  [style |-> style, alignment |-> None,
   runs |-> IF t = <<>> THEN <<>> ELSE <<NewRun(t)>>]

\* ------------------------------------------------------ script literals
SourceText == <<24425, 34425, 25991, 23383, 65306>>

Alphabet == {24425, 65306}

titleStmts ==
  << [op |-> "add_heading", var |-> "title", text |-> <<22797, 26434, 26684, 24335, 27979, 35797, 25991, 26723>>, level |-> 0],
     [op |-> "alignment", var |-> "title", val |-> "CENTER"],
     [op |-> "runs", var |-> "title_run", obj |-> "title", index |-> 0],
     [op |-> "color", var |-> "title_run", val |-> RGBColor(26, 26, 26)] >>

subtitleStmts ==
  << [op |-> "add_heading", var |-> "subtitle", text |-> <<26684, 24335, 20445, 30041, 27979, 35797>>, level |-> 1],
     [op |-> "alignment", var |-> "subtitle", val |-> "CENTER"],
     [op |-> "runs", var |-> "subtitle_run", obj |-> "subtitle", index |-> 0],
     [op |-> "color", var |-> "subtitle_run", val |-> RGBColor(255, 0, 0)] >>

para1Stmts ==
  << [op |-> "add_paragraph", var |-> "para1"],
     [op |-> "alignment", var |-> "para1", val |-> "LEFT"],
     [op |-> "add_run", var |-> "run1", obj |-> "para1", text |-> <<36825, 26159>>],
     [op |-> "color", var |-> "run1", val |-> RGBColor(0, 0, 0)],
     [op |-> "add_run", var |-> "run2", obj |-> "para1", text |-> <<34013, 33394>>],
     [op |-> "color", var |-> "run2", val |-> RGBColor(0, 0, 255)],
     [op |-> "bold", var |-> "run2", val |-> TRUE],
     [op |-> "add_run", var |-> "run3", obj |-> "para1", text |-> <<30340, 25991, 23383, 65292>>],
     [op |-> "color", var |-> "run3", val |-> RGBColor(0, 0, 0)],
     [op |-> "add_run", var |-> "run4", obj |-> "para1", text |-> <<32511, 33394>>],
     [op |-> "color", var |-> "run4", val |-> RGBColor(0, 255, 0)],
     [op |-> "italic", var |-> "run4", val |-> TRUE],
     [op |-> "add_run", var |-> "run5", obj |-> "para1", text |-> <<30340, 25991, 23383, 65292>>],
     [op |-> "color", var |-> "run5", val |-> RGBColor(0, 0, 0)],
     [op |-> "add_run", var |-> "run6", obj |-> "para1", text |-> <<32418, 33394>>],
     [op |-> "color", var |-> "run6", val |-> RGBColor(255, 0, 0)],
     [op |-> "bold", var |-> "run6", val |-> TRUE],
     [op |-> "italic", var |-> "run6", val |-> TRUE],
     [op |-> "add_run", var |-> "run7", obj |-> "para1", text |-> <<30340, 25991, 23383, 12290>>],
     [op |-> "color", var |-> "run7", val |-> RGBColor(0, 0, 0)] >>

para2Stmts ==
  << [op |-> "add_paragraph", var |-> "para2"],
     [op |-> "alignment", var |-> "para2", val |-> "LEFT"],
     [op |-> "text", val |-> source] >>

\* variant: orange and yellow are exchanged in the palette
colorsSwapped ==
  << RGBColor(255, 0, 0),
     RGBColor(255, 255, 0),
     RGBColor(255, 127, 0),
     RGBColor(0, 255, 0),
     RGBColor(0, 0, 255),
     RGBColor(75, 0, 130),
     RGBColor(148, 0, 211) >>

\* variant: the palette is shuffled differently by every execution
colorsShuffled ==
  LET palette == << RGBColor(255, 0, 0),
                    RGBColor(255, 127, 0),
                    RGBColor(255, 255, 0),
                    RGBColor(0, 255, 0),
                    RGBColor(0, 0, 255),
                    RGBColor(75, 0, 130),
                    RGBColor(148, 0, 211) >>
  IN [k \in 1..7 |-> palette[((k + invocation) % 7) + 1]]

colors ==
  << RGBColor(255, 0, 0),
     RGBColor(255, 127, 0),
     RGBColor(255, 255, 0),
     RGBColor(0, 255, 0),
     RGBColor(0, 0, 255),
     RGBColor(75, 0, 130),
     RGBColor(148, 0, 211) >>

\* enumerate(text): the index and the character of the current iteration
i == iter - 1

\* variant: the character is taken one position too early
charOffByOne == <<text[IF iter > 1 THEN iter - 1 ELSE 1]>>

char == <<text[iter]>>

\* variant: the loop test forgets the last character
para2BodyAllColored ==
  << [op |-> "add_run", var |-> "run", obj |-> "para2", text |-> char] >>
  \o (IF i < Len(text)
        THEN << [op |-> "color", var |-> "run", val |-> colors[(i % Len(colors)) + 1]] >>
        ELSE << >>)

para2Body ==
  << [op |-> "add_run", var |-> "run", obj |-> "para2", text |-> char] >>
  \o (IF i < Len(text) - 1
        THEN << [op |-> "color", var |-> "run", val |-> colors[(i % Len(colors)) + 1]] >>
        ELSE << >>)

para3Stmts ==
  << [op |-> "add_paragraph", var |-> "para3"],
     [op |-> "alignment", var |-> "para3", val |-> "LEFT"],
     [op |-> "add_run", var |-> "run_word1", obj |-> "para3", text |-> <<21333, 35789>>],
     [op |-> "color", var |-> "run_word1", val |-> RGBColor(0, 0, 255)],
     [op |-> "add_run", var |-> "run_punct1", obj |-> "para3", text |-> <<65292>>],
     [op |-> "color", var |-> "run_punct1", val |-> RGBColor(255, 0, 0)],
     [op |-> "add_run", var |-> "run_word2", obj |-> "para3", text |-> <<26631, 28857>>],
     [op |-> "color", var |-> "run_word2", val |-> RGBColor(0, 255, 0)],
     [op |-> "add_run", var |-> "run_punct2", obj |-> "para3", text |-> <<12290>>],
     [op |-> "color", var |-> "run_punct2", val |-> RGBColor(255, 0, 255)] >>

\* variant: run_under2 is never given a color
para4StmtsUncolored ==
  << [op |-> "add_paragraph", var |-> "para4"],
     [op |-> "alignment", var |-> "para4", val |-> "LEFT"],
     [op |-> "add_run", var |-> "run_under1", obj |-> "para4", text |-> <<19979, 21010, 32447>>],
     [op |-> "color", var |-> "run_under1", val |-> RGBColor(255, 0, 0)],
     [op |-> "underline", var |-> "run_under1", val |-> TRUE],
     [op |-> "add_run", var |-> "run_normal", obj |-> "para4", text |-> <<32, 26222, 36890, 25991, 23383, 32>>],
     [op |-> "add_run", var |-> "run_under2", obj |-> "para4", text |-> <<19979, 21010, 32447>>],
     [op |-> "underline", var |-> "run_under2", val |-> TRUE] >>

para4Stmts ==
  << [op |-> "add_paragraph", var |-> "para4"],
     [op |-> "alignment", var |-> "para4", val |-> "LEFT"],
     [op |-> "add_run", var |-> "run_under1", obj |-> "para4", text |-> <<19979, 21010, 32447>>],
     [op |-> "color", var |-> "run_under1", val |-> RGBColor(255, 0, 0)],
     [op |-> "underline", var |-> "run_under1", val |-> TRUE],
     [op |-> "add_run", var |-> "run_normal", obj |-> "para4", text |-> <<32, 26222, 36890, 25991, 23383, 32>>],
     [op |-> "add_run", var |-> "run_under2", obj |-> "para4", text |-> <<19979, 21010, 32447>>],
     [op |-> "color", var |-> "run_under2", val |-> RGBColor(0, 0, 255)],
     [op |-> "underline", var |-> "run_under2", val |-> TRUE] >>

\* variant: run_normal2 is added with an empty string
para5StmtsEmptyRun ==
  << [op |-> "add_paragraph", var |-> "para5"],
     [op |-> "alignment", var |-> "para5", val |-> "LEFT"],
     [op |-> "add_run", var |-> "run_size1", obj |-> "para5", text |-> <<23567, 21495>>],
     [op |-> "size", var |-> "run_size1", val |-> Pt(10)],
     [op |-> "color", var |-> "run_size1", val |-> RGBColor(255, 0, 0)],
     [op |-> "add_run", var |-> "run_normal2", obj |-> "para5", text |-> <<>>],
     [op |-> "add_run", var |-> "run_size2", obj |-> "para5", text |-> <<22823, 21495>>],
     [op |-> "size", var |-> "run_size2", val |-> Pt(16)],
     [op |-> "color", var |-> "run_size2", val |-> RGBColor(0, 0, 255)] >>

para5Stmts ==
  << [op |-> "add_paragraph", var |-> "para5"],
     [op |-> "alignment", var |-> "para5", val |-> "LEFT"],
     [op |-> "add_run", var |-> "run_size1", obj |-> "para5", text |-> <<23567, 21495>>],
     [op |-> "size", var |-> "run_size1", val |-> Pt(10)],
     [op |-> "color", var |-> "run_size1", val |-> RGBColor(255, 0, 0)],
     [op |-> "add_run", var |-> "run_normal2", obj |-> "para5", text |-> <<32, 27491, 24120, 32>>],
     [op |-> "add_run", var |-> "run_size2", obj |-> "para5", text |-> <<22823, 21495>>],
     [op |-> "size", var |-> "run_size2", val |-> Pt(16)],
     [op |-> "color", var |-> "run_size2", val |-> RGBColor(0, 0, 255)] >>

para6Stmts ==
  << [op |-> "add_paragraph", var |-> "para6"],
     [op |-> "alignment", var |-> "para6", val |-> "CENTER"],
     [op |-> "add_run", var |-> "run_center1", obj |-> "para6", text |-> <<23621, 20013>>],
     [op |-> "color", var |-> "run_center1", val |-> RGBColor(255, 0, 0)],
     [op |-> "bold", var |-> "run_center1", val |-> TRUE],
     [op |-> "add_run", var |-> "run_center2", obj |-> "para6", text |-> <<32, 25991, 23383, 32>>],
     [op |-> "color", var |-> "run_center2", val |-> RGBColor(0, 0, 0)],
     [op |-> "add_run", var |-> "run_center3", obj |-> "para6", text |-> <<27979, 35797>>],
     [op |-> "color", var |-> "run_center3", val |-> RGBColor(0, 255, 0)],
     [op |-> "italic", var |-> "run_center3", val |-> TRUE] >>

para7Stmts ==
  << [op |-> "add_paragraph", var |-> "para7"],
     [op |-> "alignment", var |-> "para7", val |-> "LEFT"] >>

\* variant: the only italic-but-not-bold entry is made bold as well
complex_textsNoItalicOnly ==
  << <<<<36825, 26159>>, RGBColor(0, 0, 0), FALSE, FALSE>>,
     <<<<19968, 20010>>, RGBColor(255, 0, 0), TRUE, FALSE>>,
     <<<<22797, 26434>>, RGBColor(0, 255, 0), TRUE, TRUE>>,
     <<<<30340>>, RGBColor(0, 0, 0), FALSE, FALSE>>,
     <<<<26684, 24335>>, RGBColor(0, 0, 255), TRUE, TRUE>>,
     <<<<27979, 35797>>, RGBColor(255, 0, 255), FALSE, FALSE>>,
     <<<<27573, 33853>>, RGBColor(255, 127, 0), TRUE, TRUE>>,
     <<<<12290>>, RGBColor(0, 0, 0), FALSE, FALSE>> >>

complex_texts ==
  << <<<<36825, 26159>>, RGBColor(0, 0, 0), FALSE, FALSE>>,
     <<<<19968, 20010>>, RGBColor(255, 0, 0), TRUE, FALSE>>,
     <<<<22797, 26434>>, RGBColor(0, 255, 0), FALSE, TRUE>>,
     <<<<30340>>, RGBColor(0, 0, 0), FALSE, FALSE>>,
     <<<<26684, 24335>>, RGBColor(0, 0, 255), TRUE, TRUE>>,
     <<<<27979, 35797>>, RGBColor(255, 0, 255), FALSE, FALSE>>,
     <<<<27573, 33853>>, RGBColor(255, 127, 0), TRUE, TRUE>>,
     <<<<12290>>, RGBColor(0, 0, 0), FALSE, FALSE>> >>

para7Body ==
  LET item == complex_texts[iter] IN
  << [op |-> "add_run", var |-> "run", obj |-> "para7", text |-> item[1]],
     [op |-> "color", var |-> "run", val |-> item[2]],
     [op |-> "bold", var |-> "run", val |-> item[3]],
     [op |-> "italic", var |-> "run", val |-> item[4]] >>

para8Stmts ==
  << [op |-> "add_paragraph", var |-> "para8"],
     [op |-> "alignment", var |-> "para8", val |-> "LEFT"] >>

special_chars ==
  << <<<<29305, 27530>>, RGBColor(255, 0, 0)>>,
     <<<<23383, 31526>>, RGBColor(0, 255, 0)>>,
     <<<<65306>>, RGBColor(0, 0, 255)>>,
     <<<<64>>, RGBColor(255, 0, 255)>>,
     <<<<35>>, RGBColor(255, 127, 0)>>,
     <<<<36>>, RGBColor(0, 255, 255)>>,
     <<<<37>>, RGBColor(255, 255, 0)>>,
     <<<<38>>, RGBColor(0, 0, 255)>>,
     <<<<42>>, RGBColor(255, 0, 0)>> >>

para8Body ==
  LET item == special_chars[iter] IN
  << [op |-> "add_run", var |-> "run", obj |-> "para8", text |-> item[1]],
     [op |-> "color", var |-> "run", val |-> item[2]] >>

saveStmts ==
  << [op |-> "output_path", val |-> "complex_reference.docx"],
     [op |-> "save"] >>

printStmts ==
  << [op |-> "print", line |-> "generated"],
     [op |-> "print", line |-> "paragraphs"],
     [op |-> "print", line |-> "colors"] >>

\* ------------------------------------------------------- control flow
\* variant: the size and alignment paragraphs are built in the other order
SectionsSwapped ==
  << "title", "subtitle", "para1", "para2", "para2_for", "para3", "para4",
     "para6", "para5", "para7", "para7_for", "para8", "para8_for",
     "save", "print" >>

\* variant: the document is saved before the last paragraph gets its Runs
SectionsSaveEarly ==
  << "title", "subtitle", "para1", "para2", "para2_for", "para3", "para4",
     "para5", "para6", "para7", "para7_for", "para8", "save", "para8_for",
     "print" >>

Sections ==
  << "title", "subtitle", "para1", "para2", "para2_for", "para3", "para4",
     "para5", "para6", "para7", "para7_for", "para8", "para8_for",
     "save", "print" >>

IsLoop(s) == s \in {"para2_for", "para7_for", "para8_for"}

Items(s) ==
  CASE s = "para2_for" -> text
    [] s = "para7_for" -> complex_texts
    [] s = "para8_for" -> special_chars

Code ==
  CASE pc = "title" -> titleStmts
    [] pc = "subtitle" -> subtitleStmts
    [] pc = "para1" -> para1Stmts
    [] pc = "para2" -> para2Stmts
    [] pc = "para2_for" -> para2Body
    [] pc = "para3" -> para3Stmts
    [] pc = "para4" -> para4Stmts
    [] pc = "para5" -> para5Stmts
    [] pc = "para6" -> para6Stmts
    [] pc = "para7" -> para7Stmts
    [] pc = "para7_for" -> para7Body
    [] pc = "para8" -> para8Stmts
    [] pc = "para8_for" -> para8Body
    [] pc = "save" -> saveStmts
    [] pc = "print" -> printStmts

Running == pc \notin {"done", "failed"}

Cur == Code[ip]

At(op) == Running /\ ip >= 1 /\ Cur.op = op

SectionIndex(s) == CHOOSE k \in 1..Len(Sections) : Sections[k] = s

After(s) ==
  IF SectionIndex(s) < Len(Sections) THEN Sections[SectionIndex(s) + 1] ELSE "done"

Goto(s) ==
  /\ pc' = s
  /\ ip' = IF IsLoop(s) THEN 0 ELSE 1
  /\ iter' = 0

\* fall through to the next statement, to the loop head, or to the next section
Advance ==
  IF ip < Len(Code)
    THEN pc' = pc /\ ip' = ip + 1 /\ iter' = iter
    ELSE IF IsLoop(pc)
           THEN pc' = pc /\ ip' = 0 /\ iter' = iter
           ELSE Goto(After(pc))

\* an uncaught exception ends the script
\* variant: the exception is swallowed and the script carries on
RaiseSwallowed == Advance

Raise == pc' = "failed" /\ ip' = 0 /\ iter' = iter

Bind(name, ref) == env' = (name :> ref) @@ env

SetFont(ref, attr, v) ==
  doc' = [doc EXCEPT ![ref.blk].runs[ref.run][attr] = Some(v)]

\* ------------------------------------------------------------ actions
Init ==
  /\ doc = <<>>
  /\ env = <<>>
  /\ text = <<>>
  /\ output_path = ""
  /\ pc = "title"
  /\ ip = 1
  /\ iter = 0
  /\ file = None
  /\ saveCalls = 0
  /\ stdout = <<>>
  /\ source = SourceText
  /\ invocation = 1
  /\ prevDoc = <<>>

AddHeading ==
  /\ At("add_heading")
  /\ doc' = Append(doc, NewParagraph(HeadingStyle(Cur.level), Cur.text))
  /\ Bind(Cur.var, [blk |-> Len(doc) + 1, run |-> 0])
  /\ Advance
  /\ UNCHANGED <<text, output_path, file, saveCalls, stdout, source, invocation, prevDoc>>

AddParagraph ==
  /\ At("add_paragraph")
  /\ doc' = Append(doc, NewParagraph("Normal", <<>>))
  /\ Bind(Cur.var, [blk |-> Len(doc) + 1, run |-> 0])
  /\ Advance
  /\ UNCHANGED <<text, output_path, file, saveCalls, stdout, source, invocation, prevDoc>>

SetAlignment ==
  /\ At("alignment")
  /\ doc' = [doc EXCEPT ![env[Cur.var].blk].alignment = Some(Cur.val)]
  /\ Advance
  /\ UNCHANGED <<env, text, output_path, file, saveCalls, stdout, source, invocation, prevDoc>>

GetRun ==
  /\ At("runs")
  /\ IF Cur.index + 1 <= Len(doc[env[Cur.obj].blk].runs)
       THEN Bind(Cur.var, [blk |-> env[Cur.obj].blk, run |-> Cur.index + 1]) /\ Advance
       ELSE Raise /\ env' = env
  /\ UNCHANGED <<doc, text, output_path, file, saveCalls, stdout, source, invocation, prevDoc>>

AssignText ==
  /\ At("text")
  /\ text' = Cur.val
  /\ Advance
  /\ UNCHANGED <<doc, env, output_path, file, saveCalls, stdout, source, invocation, prevDoc>>

For ==
  /\ Running /\ IsLoop(pc) /\ ip = 0
  /\ IF iter < Len(Items(pc))
       THEN /\ iter' = iter + 1
            /\ ip' = 1
            /\ pc' = pc
            /\ text' = IF pc = "para2_for" THEN text ELSE Items(pc)[iter + 1][1]
       ELSE Goto(After(pc)) /\ text' = text
  /\ UNCHANGED <<doc, env, output_path, file, saveCalls, stdout, source, invocation, prevDoc>>

AddRun ==
  /\ At("add_run")
  /\ LET b == env[Cur.obj].blk IN
       /\ doc' = [doc EXCEPT ![b].runs = Append(@, NewRun(Cur.text))]
       /\ Bind(Cur.var, [blk |-> b, run |-> Len(doc[b].runs) + 1])
  /\ Advance
  /\ UNCHANGED <<text, output_path, file, saveCalls, stdout, source, invocation, prevDoc>>

SetColor ==
  /\ At("color")
  /\ SetFont(env[Cur.var], "color", Cur.val)
  /\ Advance
  /\ UNCHANGED <<env, text, output_path, file, saveCalls, stdout, source, invocation, prevDoc>>

SetBold ==
  /\ At("bold")
  /\ SetFont(env[Cur.var], "bold", Cur.val)
  /\ Advance
  /\ UNCHANGED <<env, text, output_path, file, saveCalls, stdout, source, invocation, prevDoc>>

SetItalic ==
  /\ At("italic")
  /\ SetFont(env[Cur.var], "italic", Cur.val)
  /\ Advance
  /\ UNCHANGED <<env, text, output_path, file, saveCalls, stdout, source, invocation, prevDoc>>

SetUnderline ==
  /\ At("underline")
  /\ SetFont(env[Cur.var], "underline", Cur.val)
  /\ Advance
  /\ UNCHANGED <<env, text, output_path, file, saveCalls, stdout, source, invocation, prevDoc>>

SetSize ==
  /\ At("size")
  /\ SetFont(env[Cur.var], "size", Cur.val)
  /\ Advance
  /\ UNCHANGED <<env, text, output_path, file, saveCalls, stdout, source, invocation, prevDoc>>

AssignOutputPath ==
  /\ At("output_path")
  /\ output_path' = Cur.val
  /\ Advance
  /\ UNCHANGED <<doc, env, text, file, saveCalls, stdout, source, invocation, prevDoc>>

\* doc.save(output_path) returns: the artifact holds the document
Save ==
  /\ At("save")
  /\ saveCalls' = saveCalls + 1
  /\ file' = Some(doc)
  /\ Advance
  /\ UNCHANGED <<doc, env, text, output_path, stdout, source, invocation, prevDoc>>

\* doc.save(output_path) raises (I/O or library failure): nothing catches it
SaveFails ==
  /\ At("save")
  /\ saveCalls' = saveCalls + 1
  /\ Raise
  /\ UNCHANGED <<doc, env, text, output_path, file, stdout, source, invocation, prevDoc>>

SummaryLine ==
  CASE Cur.line = "generated" -> [line |-> "generated", path |-> output_path, count |-> 0]
    [] Cur.line = "paragraphs" -> [line |-> "paragraphs", path |-> "", count |-> Len(doc)]
    [] Cur.line = "colors" -> [line |-> "colors", path |-> "", count |-> 0]

PrintSummary ==
  /\ At("print")
  /\ stdout' = Append(stdout, SummaryLine)
  /\ Advance
  /\ UNCHANGED <<doc, env, text, output_path, file, saveCalls, source, invocation, prevDoc>>

\* the script is executed again, in a fresh interpreter, over the same disk
Rerun ==
  /\ ~Running
  /\ invocation < MaxInvocations
  /\ invocation' = invocation + 1
  /\ prevDoc' = doc
  /\ doc' = <<>>
  /\ env' = <<>>
  /\ text' = <<>>
  /\ output_path' = ""
  /\ pc' = "title"
  /\ ip' = 1
  /\ iter' = 0
  /\ saveCalls' = 0
  /\ stdout' = <<>>
  /\ UNCHANGED <<file, source>>

Next ==
  \/ AddHeading
  \/ AddParagraph
  \/ SetAlignment
  \/ GetRun
  \/ AssignText
  \/ For
  \/ AddRun
  \/ SetColor
  \/ SetBold
  \/ SetItalic
  \/ SetUnderline
  \/ SetSize
  \/ AssignOutputPath
  \/ Save
  \/ SaveFails
  \/ PrintSummary

Spec == Init /\ [][Next]_vars

\* the same script with the literal of line 60 drawn from a bounded set
BoundedStrings == UNION {[1..n -> Alphabet] : n \in 0..MaxLen}

InitAnySource ==
  /\ doc = <<>>
  /\ env = <<>>
  /\ text = <<>>
  /\ output_path = ""
  /\ pc = "title"
  /\ ip = 1
  /\ iter = 0
  /\ file = None
  /\ saveCalls = 0
  /\ stdout = <<>>
  /\ source \in BoundedStrings
  /\ invocation = 1
  /\ prevDoc = <<>>

SpecAnySource == InitAnySource /\ [][Next]_vars

\* the script executed up to MaxInvocations times in a row
NextRerun == Next \/ Rerun

SpecRerun == Init /\ [][NextRerun]_vars

\* ------------------------------------------------- derived quantities
RECURSIVE Concat(_)
Concat(runs) ==
  IF runs = <<>> THEN <<>> ELSE Head(runs).text \o Concat(Tail(runs))

IsPrefix(s, t) == Len(s) <= Len(t) /\ SubSeq(t, 1, Len(s)) = s

RECURSIVE RunCount(_)
RunCount(d) == IF d = <<>> THEN 0 ELSE Len(Head(d).runs) + RunCount(Tail(d))

SetCount(run) ==
  Cardinality({a \in {"color", "bold", "italic", "underline", "size"} : IsSet(run[a])})

RECURSIVE RunsSetCount(_)
RunsSetCount(runs) ==
  IF runs = <<>> THEN 0 ELSE SetCount(Head(runs)) + RunsSetCount(Tail(runs))

RECURSIVE AttrCount(_)
AttrCount(d) ==
  IF d = <<>> THEN 0
  ELSE (IF IsSet(Head(d).alignment) THEN 1 ELSE 0)
       + RunsSetCount(Head(d).runs) + AttrCount(Tail(d))

\* all ten blocks have been built: control is at or past the save
Built == pc \in {"save", "print", "done", "failed"}

\* the blocks of the finished document, by position
MultiColorBlk == 3
CyclingBlk == 4
UnderlineBlk == 6
SizeBlk == 7
AlignmentBlk == 8
CombinatorialBlk == 9

\* what the finished document is to contain, block by block
Catalog ==
  << [style |-> "Title", alignment |-> "CENTER",
      text |-> <<22797, 26434, 26684, 24335, 27979, 35797, 25991, 26723>>],
     [style |-> "Heading 1", alignment |-> "CENTER",
      text |-> <<26684, 24335, 20445, 30041, 27979, 35797>>],
     [style |-> "Normal", alignment |-> "LEFT",
      text |-> <<36825, 26159, 34013, 33394, 30340, 25991, 23383, 65292, 32511, 33394,
                 30340, 25991, 23383, 65292, 32418, 33394, 30340, 25991, 23383, 12290>>],
     [style |-> "Normal", alignment |-> "LEFT",
      text |-> <<24425, 34425, 25991, 23383, 65306>>],
     [style |-> "Normal", alignment |-> "LEFT",
      text |-> <<21333, 35789, 65292, 26631, 28857, 12290>>],
     [style |-> "Normal", alignment |-> "LEFT",
      text |-> <<19979, 21010, 32447, 32, 26222, 36890, 25991, 23383, 32, 19979, 21010, 32447>>],
     [style |-> "Normal", alignment |-> "LEFT",
      text |-> <<23567, 21495, 32, 27491, 24120, 32, 22823, 21495>>],
     [style |-> "Normal", alignment |-> "CENTER",
      text |-> <<23621, 20013, 32, 25991, 23383, 32, 27979, 35797>>],
     [style |-> "Normal", alignment |-> "LEFT",
      text |-> <<36825, 26159, 19968, 20010, 22797, 26434, 30340, 26684, 24335, 27979,
                 35797, 27573, 33853, 12290>>],
     [style |-> "Normal", alignment |-> "LEFT",
      text |-> <<29305, 27530, 23383, 31526, 65306, 64, 35, 36, 37, 38, 42>>] >>

\* the seven-color palette, as the specification lists it
Palette ==
  << <<255, 0, 0>>, <<255, 127, 0>>, <<255, 255, 0>>, <<0, 255, 0>>,
     <<0, 0, 255>>, <<75, 0, 130>>, <<148, 0, 211>> >>

AllRuns == UNION {{<<b, r>> : r \in 1..Len(doc[b].runs)} : b \in 1..Len(doc)}

RunAt(br) == doc[br[1]].runs[br[2]]

PlainRuns == {<<CyclingBlk, 5>>, <<UnderlineBlk, 2>>, <<SizeBlk, 2>>}

C2_FirstSixColors ==
  (Built \/ pc = "para3") =>
    LET rs == doc[CyclingBlk].runs IN
      /\ Len(rs) >= 6
      /\ \A k \in 1..6 : rs[k].color = Some(Palette[k])
      /\ rs[Len(rs)].color = None

\* C2 amended: the fixed source string has five characters; the Runs of its
\* 1st to 4th characters carry (0xFF,0x00,0x00), (0xFF,0x7F,0x00),
\* (0xFF,0xFF,0x00), (0x00,0xFF,0x00) in that order and the Run of the final
\* (5th) character carries no explicit color.
C2_FirstFourColors ==
  (Built \/ pc = "para3") =>
    LET rs == doc[CyclingBlk].runs IN
      /\ Len(rs) = 5
      /\ \A k \in 1..4 : rs[k].color = Some(Palette[k])
      /\ rs[5].color = None

C2_Witness ==
  /\ pc = "para3"
  /\ Len(doc[CyclingBlk].runs) = 5
  /\ doc[CyclingBlk].runs[4].color = Some(<<0, 255, 0>>)

\* ----------------------------------------------------------------- C3
\* C3: at every point of the build the blocks present are a prefix of the
\* catalog sequence (title, subtitle, then the eight patterns in order, the
\* alignment paragraph being the only centered one), each block holding a
\* prefix of its text; once the build is over there are exactly ten blocks,
\* each equal to its catalog entry.
C3_AssemblyOrder ==
  /\ Len(doc) <= Len(Catalog)
  /\ \A b \in 1..Len(doc) :
       /\ doc[b].style = Catalog[b].style
       /\ doc[b].alignment \in {None, Some(Catalog[b].alignment)}
       /\ IsPrefix(Concat(doc[b].runs), Catalog[b].text)
       /\ b < Len(doc) =>
            /\ doc[b].alignment = Some(Catalog[b].alignment)
            /\ Concat(doc[b].runs) = Catalog[b].text
  /\ Built =>
       /\ Len(doc) = 10
       /\ doc[10].alignment = Some(Catalog[10].alignment)
       /\ Concat(doc[10].runs) = Catalog[10].text

C3_Witness ==
  /\ pc = "para6"
  /\ Len(doc) = 8
  /\ doc[AlignmentBlk].alignment = Some("CENTER")
  /\ Len(doc[AlignmentBlk].runs) = 2

\* ----------------------------------------------------------------- C4
\* C4: in the assembled document the concatenation of every paragraph's Run
\* texts equals the paragraph's literal string, and the character-cycling
\* paragraph has one single-character Run per character of its source string,
\* in source order.
C4_OrderPreservation ==
  Built =>
    /\ \A b \in 1..Len(Catalog) : Concat(doc[b].runs) = Catalog[b].text
    /\ Len(doc[CyclingBlk].runs) = Len(Catalog[CyclingBlk].text)
    /\ \A k \in 1..Len(doc[CyclingBlk].runs) :
         doc[CyclingBlk].runs[k].text = <<Catalog[CyclingBlk].text[k]>>

C4_Witness ==
  /\ pc = "save"
  /\ Len(doc) = 10
  /\ Len(doc[CyclingBlk].runs) = 5
  /\ Len(doc[CombinatorialBlk].runs) = 8

\* ----------------------------------------------------------------- C5
\* C5: once the fully combinatorial paragraph is complete, it has a Run for
\* each of the four (bold, italic) combinations, and every one of its Runs
\* has bold, italic and color explicitly assigned.
C5_BooleanCoverage ==
  (Built \/ pc \in {"para8", "para8_for"}) =>
    LET rs == doc[CombinatorialBlk].runs IN
      /\ \A bo \in BOOLEAN, it \in BOOLEAN :
           \E r \in 1..Len(rs) : rs[r].bold = Some(bo) /\ rs[r].italic = Some(it)
      /\ \A r \in 1..Len(rs) :
           IsSet(rs[r].bold) /\ IsSet(rs[r].italic) /\ IsSet(rs[r].color)

C5_Witness ==
  /\ pc = "para8"
  /\ Len(doc[CombinatorialBlk].runs) = 8
  /\ doc[CombinatorialBlk].runs[3].bold = Some(FALSE)
  /\ doc[CombinatorialBlk].runs[3].italic = Some(TRUE)

Complete(d) == Len(d) = 10 /\ RunCount(d) = 44 /\ AttrCount(d) = 77

\* C7: save is called at most once, and exactly once in an execution that
\* reaches its end; the call happens only when all ten blocks with all their
\* Runs and attributes are in the document; after the call the document
\* never changes.
C7_SaveOnceAfterAssembly ==
  [][ /\ saveCalls' <= 1
      /\ (saveCalls' # saveCalls) => Complete(doc)
      /\ (saveCalls >= 1) => (doc' = doc)
      /\ (pc' = "done") => (saveCalls' = 1) ]_vars

C7_Witness ==
  /\ pc = "done"
  /\ saveCalls = 1
  /\ file = Some(doc)
  /\ Len(stdout) = 3

\* ----------------------------------------------------------------- C8
\* C8: after a failed save the execution is over (no statement can run), the
\* save was called once and nothing has been printed; whenever a summary line
\* has been printed, the one save call succeeded and the artifact holds the
\* document.
C8_FailStop ==
  /\ pc = "failed" => (~ENABLED Next) /\ saveCalls = 1 /\ stdout = <<>>
  /\ stdout # <<>> => saveCalls = 1 /\ file = Some(doc) /\ pc \in {"print", "done"}

C8_Witness ==
  /\ pc = "failed"
  /\ saveCalls = 1
  /\ file = None
  /\ Len(doc) = 10

\* ----------------------------------------------------------------- C9
\* positions of the cycling paragraph whose loop iteration is over
Iterated ==
  IF pc \in {"title", "subtitle", "para1", "para2"} THEN {}
  ELSE IF pc = "para2_for" THEN (IF ip = 0 THEN 1..iter ELSE 1..(iter - 1))
  ELSE 1..Len(source)

\* C9: for a source string of length n, every Run of the character-cycling
\* paragraph at 0-based position i < n-1 has color palette[i mod 7], and the
\* Run at position n-1 is the only one with no explicit color; after the
\* loop the paragraph has exactly n Runs.
C9_CyclingRule ==
  /\ \A k \in Iterated :
       /\ k <= Len(doc[CyclingBlk].runs)
       /\ IF k - 1 < Len(source) - 1
            THEN doc[CyclingBlk].runs[k].color = Some(Palette[((k - 1) % 7) + 1])
            ELSE doc[CyclingBlk].runs[k].color = None
  /\ (Built \/ pc = "para3") => Len(doc[CyclingBlk].runs) = Len(source)

C9_Witness ==
  /\ pc = "para3"
  /\ Len(source) = 9
  /\ doc[CyclingBlk].runs[8].color = Some(<<255, 0, 0>>)
  /\ doc[CyclingBlk].runs[9].color = None

\* ---------------------------------------------------------------- C10
\* C10: in every reachable state every Run in the document has non-empty
\* text.
C10_NoEmptyRuns ==
  \A br \in AllRuns : RunAt(br).text # <<>>

C10_Witness ==
  /\ Built
  /\ RunCount(doc) = 44
  /\ \E br \in AllRuns : Len(RunAt(br).text) = 1

====
